---- MODULE Spec2Model ----
(***************************************************************************)
(* Model of api/index.py: the unofficial Gemini web client.                *)
(*   - parse_streaming_response : the streaming response decoder           *)
(*   - build_payload            : the prompt escaping of the encoder       *)
(*   - extract_snlm0e_token     : the ordered-pattern token extraction     *)
(*   - ask_gemini / chat_with_gemini / scrape_fresh_session / upload_image *)
(* Strings are sequences of one-character strings, so that escaping,       *)
(* unescaping, prefixes and lengths are computed character by character.   *)
(* A JSON line is modelled by its parsed value, a page by what the regular *)
(* expressions match in it. The routing parameters (bl, f.sid, _reqid),    *)
(* the cookies and the serialisation of payload_data into the f.req field  *)
(* take no part in any property below and are left out.                    *)
(***************************************************************************)
EXTENDS Integers, Sequences, FiniteSets, TLC

VARIABLES
    pc,              \* position of the operation under study
    response_lines,  \* parse_streaming_response: response_text.strip().split('\n')
    full_text,       \* parse_streaming_response: the running best text (still escaped)
    decoded,         \* parse_streaming_response: the value returned
    prompt,          \* build_payload: the prompt argument
    escaped_prompt,  \* build_payload: escaped_prompt (line 171)
    round_trip,      \* the decoder's unescaping (line 292) applied to escaped_prompt
    html,            \* the landing page text handed to the token extraction
    token,           \* extract_snlm0e_token: the value returned
    request,         \* ask_gemini: the inbound request (method, prompt, image)
    scraped,         \* chat_with_gemini: what scrape_fresh_session returned
    upload,          \* chat_with_gemini: how the image upload went
    image_id,        \* chat_with_gemini: image_id
    payload,         \* chat_with_gemini: the payload handed to the chat POST
    calls,           \* the HTTP calls issued so far, each with how it ended
    result,          \* chat_with_gemini: the value returned
    http_response    \* ask_gemini: the status and body returned to the caller

decodeVars == <<response_lines, full_text, decoded>>
escapeVars == <<prompt, escaped_prompt, round_trip>>
tokenVars == <<html, token>>
chatVars == <<request, scraped, upload, image_id, payload, calls, result, http_response>>
vars == <<pc, decodeVars, escapeVars, tokenVars, chatVars>>

(***************************************************************************)
(* Characters and Python values                                            *)
(***************************************************************************)
BS == "\\"
QT == "\""
NL == "\n"

\* Python's None, and a present string value.
None == [none |-> TRUE]
Str(s) == [none |-> FALSE, str |-> s]

\* a value not yet computed (the operation has not run)
Unset == [unset |-> TRUE]

(***************************************************************************)
(* str.replace, left to right, non-overlapping                             *)
(***************************************************************************)
RECURSIVE ReplacePair(_, _, _, _)
\* s.replace(a + b, r) for a two-character pattern and a one-character r
ReplacePair(s, a, b, r) ==
    IF Len(s) < 2 THEN s
    ELSE IF s[1] = a /\ s[2] = b
         THEN <<r>> \o ReplacePair(SubSeq(s, 3, Len(s)), a, b, r)
         ELSE <<s[1]>> \o ReplacePair(Tail(s), a, b, r)

RECURSIVE ReplaceChar(_, _, _)
\* s.replace(c, r) for a one-character pattern and a replacement string r
ReplaceChar(s, c, r) ==
    IF s = <<>> THEN <<>>
    ELSE (IF s[1] = c THEN r ELSE <<s[1]>>) \o ReplaceChar(Tail(s), c, r)

\* full_text.replace('\\n', '\n').replace('\\"', '"').replace('\\\\', '\\')
Unescape(t) ==
    ReplacePair(ReplacePair(ReplacePair(t, BS, "n", NL), BS, QT, QT), BS, BS, BS)

(***************************************************************************)
(* The streaming response: one record per line of the body                 *)
(***************************************************************************)
\* the texts a response candidate may carry (escaped, as json.loads yields them)
CandidateTexts ==
    { <<>>, <<"a">>, <<"b">>, <<"a", "b">>, <<BS, "n">> }

\* first_item[1][0]: a string, or a JSON value that is no string
TextValue(t) == [isStr |-> TRUE, val |-> t]
NonStringText == [isStr |-> FALSE, val |-> <<>>]

ReplyId == <<"r", "c", "_", "1">>
OtherId == <<"x", "c", "_", "1">>

\* one element of parsed[4]: [response_id, [text_content, ...], ...]
Candidates ==
    { [rid |-> ReplyId, text |-> TextValue(t)] : t \in CandidateTexts }
    \cup { [rid |-> OtherId, text |-> TextValue(<<"a", "b", "b">>)] }
    \cup { [rid |-> ReplyId, text |-> NonStringText] }

\* parsed[4] of a reply: zero, one or two candidates
ContentArrays ==
    { <<>> } \cup { <<c>> : c \in Candidates }
    \cup { <<c, d>> : c \in Candidates, d \in Candidates }

\* data[0][2], the payload that is parsed a second time
InnerPayloads ==
    { [form |-> "null", content |-> <<>>],       \* falsy inner_json
      [form |-> "garbled", content |-> <<>>],    \* second json.loads raises
      [form |-> "short", content |-> <<>>] }     \* not a list of more than 4 elements
    \cup { [form |-> "reply", content |-> ca] : ca \in ContentArrays }

LongReply ==
    [form |-> "reply",
     content |-> << [rid |-> ReplyId, text |-> TextValue(<<"a", "b", "b">>)] >>]

\* the lines of a body
StreamLines ==
    { [kind |-> "blank"],        \* ''
      [kind |-> "antihijack"],   \* )]}'
      [kind |-> "digits"],       \* a chunk length
      [kind |-> "garbled"],      \* json.loads raises
      [kind |-> "scalar"] }      \* JSON, but no non-empty list of lists
    \cup { [kind |-> "json", tag |-> "di", size |-> 3, inner |-> LongReply],
           [kind |-> "json", tag |-> "wrb.fr", size |-> 2,
            inner |-> [form |-> "null", content |-> <<>>]] }
    \cup { [kind |-> "json", tag |-> "wrb.fr", size |-> 3, inner |-> p] :
             p \in InnerPayloads }

MaxLines == 2

ResponseBodies == UNION { [1..n -> StreamLines] : n \in 1..MaxLines }

StartsWith(s, p) == Len(s) >= Len(p) /\ SubSeq(s, 1, Len(p)) = p

\* (a decoder that reads the last candidate of a frame instead of the first)
OfferedTextOfLastCandidate(line) ==
    IF line.kind \in {"blank", "antihijack", "digits", "garbled", "scalar"}
    THEN None
    ELSE IF ~(line.tag = "wrb.fr" /\ line.size > 2) THEN None
    ELSE IF line.inner.form # "reply" THEN None
    ELSE IF Len(line.inner.content) = 0 THEN None
    ELSE LET last_item == line.inner.content[Len(line.inner.content)] IN
         IF StartsWith(last_item.rid, <<"r", "c", "_">>) /\ last_item.text.isStr
         THEN Str(last_item.text.val)
         ELSE None

\* Lines 254-286: the text_content a line offers to the comparison of line
\* 286, or None when the line is skipped or any condition on the way fails.
OfferedText(line) ==
    IF line.kind \in {"blank", "antihijack", "digits", "garbled", "scalar"}
    THEN None
    ELSE IF ~(line.tag = "wrb.fr" /\ line.size > 2) THEN None
    ELSE IF line.inner.form # "reply" THEN None
    ELSE IF Len(line.inner.content) = 0 THEN None
    ELSE LET first_item == line.inner.content[1] IN
         IF StartsWith(first_item.rid, <<"r", "c", "_">>) /\ first_item.text.isStr
         THEN Str(first_item.text.val)
         ELSE None

\* (a decoder that keeps the latest text, and one that lets a text of equal
\* length replace the best)
KeepLast(best, line) ==
    IF OfferedText(line) # None THEN OfferedText(line).str ELSE best
KeepLongestOrEqual(best, line) ==
    LET offered == OfferedText(line) IN
    IF offered # None /\ Len(offered.str) >= Len(best) THEN offered.str ELSE best

\* Line 286-287: the running best text after one more line
KeepLongest(best, line) ==
    LET offered == OfferedText(line) IN
    IF offered # None /\ Len(offered.str) > Len(best) THEN offered.str ELSE best

RECURSIVE BestText(_)
\* Lines 251-289: the loop over the lines, from full_text = ""
BestText(lines) ==
    IF lines = <<>> THEN <<>>
    ELSE KeepLongest(BestText(SubSeq(lines, 1, Len(lines) - 1)), lines[Len(lines)])

\* Lines 291-294
Returned(best) ==
    LET unescaped == IF best # <<>> THEN Unescape(best) ELSE best
    IN  IF unescaped # <<>> THEN Str(unescaped) ELSE None

parse_streaming_response(lines) == Returned(BestText(lines))

\* the variables of the operations a specification does not exercise
IdleDecode == response_lines = <<>> /\ full_text = <<>> /\ decoded = Unset
IdleEscape == prompt = <<>> /\ escaped_prompt = Unset /\ round_trip = Unset
IdleToken == html = <<>> /\ token = Unset
IdleChat ==
    /\ request = Unset /\ scraped = Unset /\ upload = "none" /\ image_id = None
    /\ payload = Unset /\ calls = <<>> /\ result = Unset /\ http_response = Unset

InitDecode ==
    /\ pc = "decode"
    /\ response_lines \in ResponseBodies
    /\ full_text = <<>>
    /\ decoded = Unset
    /\ IdleEscape /\ IdleToken /\ IdleChat

Decode ==
    /\ pc = "decode"
    /\ full_text' = BestText(response_lines)
    /\ decoded' = Returned(full_text')
    /\ pc' = "decoded"
    /\ UNCHANGED <<response_lines, escapeVars, tokenVars, chatVars>>

NextDecode == Decode

SpecDecode == InitDecode /\ [][NextDecode]_vars

(***************************************************************************)
(* Properties of the decoder                                               *)
(***************************************************************************)
\* a line that parses as a JSON array whose first element is a "wrb.fr"
\* wrapper with a third element
IsValidDataFrame(line) ==
    line.kind = "json" /\ line.tag = "wrb.fr" /\ line.size > 2

\* the texts of the rc_ candidates of a frame at the positions idx of parsed[4]
RcTextsAt(line, idx) ==
    IF IsValidDataFrame(line) /\ line.inner.form = "reply"
    THEN { line.inner.content[i].text.val :
             i \in { j \in idx \cap DOMAIN line.inner.content :
                       /\ StartsWith(line.inner.content[j].rid, <<"r", "c", "_">>)
                       /\ line.inner.content[j].text.isStr } }
    ELSE {}

AllRcTexts(lines) ==
    UNION { RcTextsAt(lines[i], 1..Len(lines[i].inner.content)) :
              i \in { j \in DOMAIN lines : IsValidDataFrame(lines[j]) } }

FirstRcTexts(lines) ==
    UNION { RcTextsAt(lines[i], {1}) :
              i \in { j \in DOMAIN lines : IsValidDataFrame(lines[j]) } }

\* the value returned is the unescaped form of a longest text of the set
\* (nothing at all when the set holds no non-empty text)
ReturnsLongestOf(texts) ==
    IF \A t \in texts : t = <<>>
    THEN decoded = None /\ full_text = <<>>
    ELSE \E t \in texts :
            /\ full_text = t
            /\ decoded = Str(Unescape(t))
            /\ \A u \in texts : Len(u) <= Len(t)

\* C1 (as stated): the decoder returns the longest text among ALL rc_
\* candidates of ALL valid data frames; none longer exists in the stream.
C1_LongestOfAllCandidates ==
    pc = "decoded" => ReturnsLongestOf(AllRcTexts(response_lines))

\* C1 (amended): the decoder returns the longest text among the FIRST
\* candidates (rc_-prefixed, with a string text) of all valid data frames;
\* later candidates of a frame are never read.
C1_LongestOfFirstCandidates ==
    pc = "decoded" => ReturnsLongestOf(FirstRcTexts(response_lines))

\* C1 witness: a decoded stream with a frame whose second rc_ candidate is
\* longer than its first, the first being the text returned.
C1_Witness ==
    /\ pc = "decoded"
    /\ \E i \in DOMAIN response_lines :
          /\ RcTextsAt(response_lines[i], {1}) = {full_text}
          /\ \E u \in RcTextsAt(response_lines[i], {2}) : Len(u) > Len(full_text)
    /\ decoded # None

Permute(lines, f) == [i \in DOMAIN lines |-> lines[f[i]]]

LinePermutations(lines) ==
    { f \in [DOMAIN lines -> DOMAIN lines] :
        \A i, j \in DOMAIN lines : f[i] = f[j] => i = j }

\* C2 (as stated): every permutation of the lines decodes to the same text,
\* ties between distinct texts of equal length included.
C2_OrderInsensitive ==
    pc = "decoded" =>
        \A f \in LinePermutations(response_lines) :
            parse_streaming_response(Permute(response_lines, f)) = decoded

LongestFirstRcTexts(lines) ==
    { t \in FirstRcTexts(lines) : \A u \in FirstRcTexts(lines) : Len(u) <= Len(t) }

\* C2 (amended): every permutation of the lines selects a text of the same
\* length, and decodes to the same text whenever the longest first-candidate
\* text of the stream is unique.
C2_OrderInsensitiveUpToTies ==
    pc = "decoded" =>
        \A f \in LinePermutations(response_lines) :
            /\ Len(BestText(Permute(response_lines, f))) = Len(full_text)
            /\ Cardinality(LongestFirstRcTexts(response_lines)) <= 1
                 => parse_streaming_response(Permute(response_lines, f)) = decoded

\* C2 witness: a decoded two-frame stream whose frames offer texts of
\* different lengths, the shorter one first.
C2_Witness ==
    /\ pc = "decoded"
    /\ Len(response_lines) = 2
    /\ OfferedText(response_lines[1]) = Str(<<"a">>)
    /\ OfferedText(response_lines[2]) = Str(<<"a", "b">>)
    /\ decoded = Str(<<"a", "b">>)

IsPrefix(s, t) == Len(s) <= Len(t) /\ SubSeq(t, 1, Len(s)) = s

\* the text of a returned value, absence counting as the empty text
TextOf(v) == IF v = None THEN <<>> ELSE v.str

\* C3 (as stated): the text decoded from any leading part of the lines is a
\* prefix of the text decoded from all of them.
C3_PartialIsPrefix ==
    pc = "decoded" =>
        \A k \in 0..Len(response_lines) :
            IsPrefix(TextOf(parse_streaming_response(SubSeq(response_lines, 1, k))),
                     TextOf(decoded))

\* C3 (amended): the text selected from any leading part of the lines is
\* never longer (before unescaping) than the text selected from all of them,
\* and is the very same text when it is as long.
C3_PartialNeverLonger ==
    pc = "decoded" =>
        \A k \in 0..Len(response_lines) :
            LET partial == BestText(SubSeq(response_lines, 1, k)) IN
            /\ Len(partial) <= Len(full_text)
            /\ Len(partial) = Len(full_text) => partial = full_text

\* C3 witness: a decoded stream whose first line alone selects a non-empty
\* text and whose second line replaces it by a longer one.
C3_Witness ==
    /\ pc = "decoded"
    /\ Len(response_lines) = 2
    /\ BestText(SubSeq(response_lines, 1, 1)) # <<>>
    /\ Len(BestText(SubSeq(response_lines, 1, 1))) < Len(full_text)
    /\ OfferedText(response_lines[2]) = Str(full_text)

(***************************************************************************)
(* Prompt escaping (build_payload) against the decoder's unescaping        *)
(***************************************************************************)
\* prompt.replace('\\', '\\\\').replace('"', '\\"').replace('\n', '\\n')
EscapePrompt(p) ==
    ReplaceChar(ReplaceChar(ReplaceChar(p, BS, <<BS, BS>>), QT, <<BS, QT>>),
                NL, <<BS, "n">>)

\* backslash, double quote, newline and two ordinary characters
PromptChars == {BS, QT, NL, "n", "a"}

MaxPromptLen == 3

Prompts == UNION { [1..n -> PromptChars] : n \in 0..MaxPromptLen }

InitEscape ==
    /\ pc = "escape"
    /\ prompt \in Prompts
    /\ escaped_prompt = Unset
    /\ round_trip = Unset
    /\ IdleDecode /\ IdleToken /\ IdleChat

\* build_payload, line 171
BuildPayloadEscape ==
    /\ pc = "escape"
    /\ escaped_prompt' = Str(EscapePrompt(prompt))
    /\ pc' = "unescape"
    /\ UNCHANGED <<prompt, round_trip, decodeVars, tokenVars, chatVars>>

\* parse_streaming_response, lines 291-292, on the escaped prompt
DecoderUnescape ==
    /\ pc = "unescape"
    /\ round_trip' = Str(IF escaped_prompt.str # <<>>
                        THEN Unescape(escaped_prompt.str)
                        ELSE escaped_prompt.str)
    /\ pc' = "unescaped"
    /\ UNCHANGED <<prompt, escaped_prompt, decodeVars, tokenVars, chatVars>>

NextEscape == BuildPayloadEscape \/ DecoderUnescape

SpecEscape == InitEscape /\ [][NextEscape]_vars

\* C4: escaping a prompt as build_payload does and unescaping it as the
\* decoder does yields the original prompt, for every prompt over backslash,
\* double quote, newline and ordinary characters.
C4_RoundTrip ==
    pc = "unescaped" => round_trip = Str(prompt)

(***************************************************************************)
(* Token extraction                                                        *)
(* A text is modelled by what the regular expressions find in it: the      *)
(* sequence, in document order, of the places where a pattern of           *)
(* snlm0e_patterns matches, each with the string its group captures. A     *)
(* captured string is a record of its length and of its identity.          *)
(***************************************************************************)
\* len(snlm0e_patterns), lines 13-27
NumPatterns == 13

\* len(token) > 20, line 33
MinTokenLen == 20

\* pattern 10 (line 23) captures 50 characters or more
CatchAllPattern == 10
CatchAllMinLen == 50

\* re.search(pattern, text): the position of the first match of the pattern
\* in the text, 0 when there is none
re_search(pattern, text) ==
    IF \E i \in DOMAIN text : text[i].pat = pattern
    THEN CHOOSE i \in DOMAIN text :
            /\ text[i].pat = pattern
            /\ \A j \in 1..(i - 1) : text[j].pat # pattern
    ELSE 0

\* (an extraction that accepts a capture of exactly 20 characters)
AcceptsFromTwenty(text, i) ==
    LET match == re_search(i, text) IN
    IF match # 0 /\ text[match].cap.len >= MinTokenLen
    THEN Str(text[match].cap) ELSE None

\* Lines 31-34: the token pattern i yields, None when it does not match or
\* its capture is too short
PatternYields(text, i) ==
    LET match == re_search(i, text) IN
    IF match # 0 /\ text[match].cap.len > MinTokenLen
    THEN Str(text[match].cap) ELSE None

RECURSIVE TryPatternsFrom(_, _)
\* Lines 29-36: the loop over the patterns, from pattern i on
TryPatternsFrom(text, i) ==
    IF i > NumPatterns THEN None
    ELSE IF PatternYields(text, i) # None THEN PatternYields(text, i)
    ELSE TryPatternsFrom(text, i + 1)

extract_snlm0e_token(text) == TryPatternsFrom(text, 1)

\* the lengths of the captured strings
CaptureLengths == {5, 20, 21, 50}

MatchShapes ==
    { m \in [pat : 1..NumPatterns, len : CaptureLengths] :
        m.pat = CatchAllPattern => m.len >= CatchAllMinLen }

MaxMatches == 2

\* the captures of a text are told apart by their place in it
Located(shapes) ==
    [i \in DOMAIN shapes |->
        [pat |-> shapes[i].pat, cap |-> [len |-> shapes[i].len, id |-> i]]]

HtmlTexts ==
    { Located(shapes) : shapes \in UNION { [1..n -> MatchShapes] : n \in 0..MaxMatches } }

InitToken ==
    /\ pc = "extract"
    /\ html \in HtmlTexts
    /\ token = Unset
    /\ IdleDecode /\ IdleEscape /\ IdleChat

ExtractToken ==
    /\ pc = "extract"
    /\ token' = extract_snlm0e_token(html)
    /\ pc' = "extracted"
    /\ UNCHANGED <<html, decodeVars, escapeVars, chatVars>>

NextToken == ExtractToken

SpecToken == InitToken /\ [][NextToken]_vars

\* the patterns whose first match in the text captures more than 20 characters
AcceptablePatterns(text) ==
    { p \in 1..NumPatterns :
        \E i \in DOMAIN text :
            /\ text[i].pat = p
            /\ \A j \in DOMAIN text : text[j].pat = p => i <= j
            /\ text[i].cap.len > 20 }

\* C5: extract_snlm0e_token returns the capture of the first match of the
\* earliest-listed pattern whose first match captures more than 20
\* characters, whatever later-listed patterns capture, and returns None
\* exactly when no pattern has such a first match.
C5_EarliestAcceptablePattern ==
    pc = "extracted" =>
        /\ token = None <=> AcceptablePatterns(html) = {}
        /\ token # None =>
             \E p \in AcceptablePatterns(html) :
                /\ \A q \in AcceptablePatterns(html) : p <= q
                /\ \E i \in DOMAIN html :
                      /\ html[i].pat = p
                      /\ \A j \in 1..(i - 1) : html[j].pat # p
                      /\ token = Str(html[i].cap)

\* C5 witness: two patterns both have an acceptable first match, the
\* later-listed one captures the longer string and comes first in the
\* document, and the earlier-listed pattern's capture is returned.
C5_Witness ==
    /\ pc = "extracted"
    /\ Len(html) = 2
    /\ html[1].pat > html[2].pat
    /\ html[1].cap.len > html[2].cap.len
    /\ html[2].cap.len > 20
    /\ token = Str(html[2].cap)

(***************************************************************************)
(* The landing page, as the two extraction strategies see it: a sequence   *)
(* of segments, markup or inline script blocks, each with the matches of   *)
(* snlm0e_patterns in it and the brace-delimited objects json_patterns     *)
(* find in it.                                                             *)
(***************************************************************************)
RECURSIVE Concat(_)
Concat(seqs) == IF seqs = <<>> THEN <<>> ELSE Head(seqs) \o Concat(Tail(seqs))

\* the whole html as extract_snlm0e_token sees it
PageText(page) == Concat([i \in DOMAIN page |-> page[i].matches])

RECURSIVE FirstLongString(_)
\* Lines 64-66: the first string value longer than 50 characters
FirstLongString(values) ==
    IF values = <<>> THEN None
    ELSE IF Head(values).isStr /\ Head(values).cap.len > 50 THEN Str(Head(values).cap)
    ELSE FirstLongString(Tail(values))

RECURSIVE ScanObjects(_)
\* Lines 57-68: the objects the json_patterns find, in the order visited;
\* one that json.loads rejects is skipped
ScanObjects(objects) ==
    IF objects = <<>> THEN None
    ELSE IF Head(objects).parses /\ FirstLongString(Head(objects).values) # None
         THEN FirstLongString(Head(objects).values)
         ELSE ScanObjects(Tail(objects))

RECURSIVE ScanScripts(_)
\* Lines 42-70: the loop over the script tags
ScanScripts(segments) ==
    IF segments = <<>> THEN None
    ELSE LET script == Head(segments) IN
         IF ~script.script THEN ScanScripts(Tail(segments))
         ELSE IF script.names_key /\ extract_snlm0e_token(script.matches) # None
              THEN extract_snlm0e_token(script.matches)
         ELSE IF ScanObjects(script.objects) # None
              THEN ScanObjects(script.objects)
         ELSE ScanScripts(Tail(segments))

extract_from_script_tags(page) == ScanScripts(page)

Markup(matches) ==
    [script |-> FALSE, names_key |-> FALSE, matches |-> matches, objects |-> <<>>]
Script(names_key, matches, objects) ==
    [script |-> TRUE, names_key |-> names_key, matches |-> matches, objects |-> objects]
Match(pat, id, len) == [pat |-> pat, cap |-> [len |-> len, id |-> id]]
StrValue(id, len) == [isStr |-> TRUE, cap |-> [len |-> len, id |-> id]]

\* the landing pages the host may serve
LandingPages ==
    { \* "SNlM0e":"<24 characters>" in the markup
      << Markup(<< Match(1, "tokA", 24) >>) >>,
      \* a short coincidental match first, the token in a script naming the key
      << Markup(<< Match(1, "short", 5) >>),
         Script(TRUE, << Match(1, "tokB", 30) >>, <<>>) >>,
      \* the token only as a long string field of a JSON object in a script
      << Script(FALSE, <<>>,
                << [parses |-> FALSE, values |-> <<>>],
                   [parses |-> TRUE,
                    values |-> << StrValue("brief", 10), StrValue("tokC", 60) >>] >>) >>,
      \* nothing any strategy accepts
      << Markup(<<>>) >>,
      << Markup(<< Match(12, "short", 20) >>),
         Script(TRUE, << Match(4, "short", 5) >>,
                << [parses |-> TRUE, values |-> << StrValue("brief", 50) >>] >>) >> }

(***************************************************************************)
(* Inbound requests                                                        *)
(***************************************************************************)
Whitespace == {" ", NL, "\t"}

RECURSIVE LStrip(_)
LStrip(s) == IF s # <<>> /\ Head(s) \in Whitespace THEN LStrip(Tail(s)) ELSE s

RECURSIVE RStrip(_)
RStrip(s) ==
    IF s # <<>> /\ s[Len(s)] \in Whitespace THEN RStrip(SubSeq(s, 1, Len(s) - 1)) ELSE s

\* str.strip()
Strip(s) == RStrip(LStrip(s))

RECURSIVE WordCount(_)
\* len(s.split())
WordCount(s) ==
    LET t == LStrip(s) IN
    IF t = <<>> THEN 0
    ELSE IF \E i \in DOMAIN t : t[i] \in Whitespace
         THEN 1 + WordCount(SubSeq(t, (CHOOSE i \in DOMAIN t :
                                          /\ t[i] \in Whitespace
                                          /\ \A j \in 1..(i - 1) : t[j] \notin Whitespace),
                                   Len(t)))
         ELSE 1

\* the prompt parameter: missing, or a string
RequestPrompts ==
    { None } \cup
    { Str(s) : s \in { <<>>, <<" ">>, <<" ", NL>>, <<"\t">>,
                       <<"a">>, <<QT>>, <<BS>>, <<" ", "a">>, <<"a", " ", "b">> } }

\* the image parameter: missing, empty, or a string that is a data URI
\* (header,base64) or bare base64; either part may be malformed
RequestImages ==
    { None,
      [none |-> FALSE, empty |-> TRUE, comma |-> FALSE, header_ok |-> FALSE, b64_ok |-> FALSE],
      [none |-> FALSE, empty |-> FALSE, comma |-> TRUE, header_ok |-> TRUE, b64_ok |-> TRUE],
      [none |-> FALSE, empty |-> FALSE, comma |-> FALSE, header_ok |-> FALSE, b64_ok |-> TRUE],
      [none |-> FALSE, empty |-> FALSE, comma |-> TRUE, header_ok |-> FALSE, b64_ok |-> TRUE],
      [none |-> FALSE, empty |-> FALSE, comma |-> FALSE, header_ok |-> FALSE, b64_ok |-> FALSE] }

\* Lines 567-573: a GET request carries no image
Requests ==
    { r \in [method : {"GET", "POST"}, prompt : RequestPrompts, image : RequestImages] :
        r.method = "GET" => r.image = None }

\* Python truthiness of an optional string
Truthy(v) == v # None /\ (IF "empty" \in DOMAIN v THEN ~v.empty ELSE v.str # <<>>)

(***************************************************************************)
(* Payloads: payload_data, the positional array before it is serialised    *)
(***************************************************************************)
Num(n) == [num |-> n]
List(items) == [list |-> items]

\* Lines 176-239: the positions of payload_data that carry data
build_payload(p, snlm0e) ==
    [prompt_array |-> << Str(EscapePrompt(p)), Num(0), None, None, None, None, Num(0) >>,
     locale |-> "en-US",
     snlm0e |-> snlm0e,
     session_id |-> "uuid4().hex",
     request_uuid |-> "UUID4"]

\* Lines 372-437: the same with None and the image structure appended to
\* the prompt sub-array
build_payload_with_image(p, snlm0e, id) ==
    [prompt_array |-> << Str(EscapePrompt(p)), Num(0), None, None, None, None, Num(0),
                         None,
                         List(<< List(<< List(<< Str(id), Num(1) >>), None >>) >>) >>,
     locale |-> "en-US",
     snlm0e |-> snlm0e,
     session_id |-> "uuid4().hex",
     request_uuid |-> "UUID4"]

\* Line 372-375: json.loads(f'[[["{image_id}", 1], null]]') raises when the
\* image id breaks the string literal it is pasted into
BreaksJsonLiteral(id) == \E i \in DOMAIN id : id[i] \in {QT, BS, NL}

(***************************************************************************)
(* The host                                                                *)
(***************************************************************************)
\* timeout=30, line 138; timeout=60, line 520; lines 311 and 325 pass none
GetTimeout == 30
PostTimeout == 60
NoTimeout == None

\* how a call ends when the host replies, breaks the connection, or never
\* answers: a call without timeout then blocks for ever
CallEnds(timeout, reply) ==
    CASE reply = "answer" -> "answer"
      [] reply = "broken" -> "transport_error"
      [] reply = "silent" -> IF timeout # None THEN "timeout" ELSE "blocked"

Replies == {"answer", "broken", "silent"}

TransportFailures == {"transport_error", "timeout"}

Call(name, timeout, reply) ==
    [call |-> name, timeout |-> timeout, outcome |-> CallEnds(timeout, reply)]

\* str(e) of the requests exception raised
ExceptionText(outcome) ==
    IF outcome = "timeout" THEN "Read timed out." ELSE "Connection aborted."

\* the bodies of upload_response.text
UploadTexts == { <<>>, <<"i", "d">>, <<"{", QT, "i", "d", QT, "}">> }

Frame(text) ==
    [kind |-> "json", tag |-> "wrb.fr", size |-> 3,
     inner |-> [form |-> "reply",
                content |-> << [rid |-> ReplyId, text |-> TextValue(text)] >>]]

\* the bodies of the chat response
ChatBodies ==
    { << [kind |-> "antihijack"] >>,
      << [kind |-> "antihijack"], [kind |-> "digits"], Frame(<<"a">>),
         [kind |-> "digits"], Frame(<<"a", " ", "b">>) >>,
      << [kind |-> "digits"], Frame(<<"a", BS, "n", "b">>) >>,
      << [kind |-> "garbled"], Frame(<<>>) >> }

ChatStatuses == {200, 503}

\* (a failed result that also carries an empty response)
FailureWithResponse(text) ==
    [success |-> FALSE, error |-> text, response |-> <<>>]

\* Lines 453-456, 523-526, 546-549, 552-555
Failure(text) == [success |-> FALSE, error |-> text]

\* Lines 534-544
Success(text) ==
    [success |-> TRUE,
     response |-> text,
     metadata |-> [response_time |-> "elapsed", timestamp |-> "utcnow",
                   model |-> "gemini",
                   character_count |-> Len(text),
                   word_count |-> WordCount(text)]]

HttpError(status) == IF status = 503 THEN "HTTP 503" ELSE "HTTP other"

(***************************************************************************)
(* ask_gemini and chat_with_gemini, one action per step between two        *)
(* blocking HTTP calls                                                     *)
(***************************************************************************)
InitChat ==
    /\ pc = "ask"
    /\ request \in Requests
    /\ scraped = Unset /\ upload = "none" /\ image_id = None
    /\ payload = Unset /\ calls = <<>> /\ result = Unset /\ http_response = Unset
    /\ IdleDecode /\ IdleEscape /\ IdleToken

Reject(text) ==
    /\ http_response' = [status |-> 400, body |-> Failure(text)]
    /\ pc' = "responded"

\* (a handler that only checks that the prompt is present)
AskGeminiUnchecked ==
    /\ pc = "ask"
    /\ IF request.prompt = None
       THEN Reject("Missing required parameter: prompt")
       ELSE pc' = "bootstrap" /\ UNCHANGED http_response
    /\ UNCHANGED <<request, scraped, upload, image_id, payload, calls, result>>
    /\ UNCHANGED <<decodeVars, escapeVars, tokenVars>>

\* Lines 566-604: the checks made before chat_with_gemini is called
AskGemini ==
    /\ pc = "ask"
    /\ IF ~Truthy(request.prompt)
       THEN Reject("Missing required parameter: prompt")
       ELSE IF Len(Strip(request.prompt.str)) = 0
            THEN Reject("Prompt cannot be empty")
            ELSE pc' = "bootstrap" /\ UNCHANGED http_response
    /\ UNCHANGED <<request, scraped, upload, image_id, payload, calls, result>>
    /\ UNCHANGED <<decodeVars, escapeVars, tokenVars>>

\* Lines 145-151: the two strategies, in order
FindToken(page) ==
    IF extract_snlm0e_token(PageText(page)) # None
    THEN extract_snlm0e_token(PageText(page))
    ELSE extract_from_script_tags(page)

\* (an orchestrator that goes on without a session)
BootstrapIgnored ==
    /\ scraped' = None
    /\ pc' = "image"
    /\ UNCHANGED result

\* Lines 450-456: no session, no chat
BootstrapFailed ==
    /\ scraped' = None
    /\ result' = Failure("Failed to establish session with Gemini")
    /\ pc' = "return"

\* Lines 117-168 and 450-463: the landing page fetch and the extraction
ScrapeFreshSession ==
    /\ pc = "bootstrap"
    /\ \E reply \in Replies :
          LET c == Call("GET landing", Num(GetTimeout), reply) IN
          /\ calls' = Append(calls, c)
          /\ IF c.outcome # "answer"
             THEN BootstrapFailed
             ELSE \E page \in LandingPages :
                     IF FindToken(page) = None
                     THEN BootstrapFailed
                     ELSE /\ scraped' = [snlm0e |-> FindToken(page).str, html |-> page]
                          /\ pc' = "image"
                          /\ UNCHANGED result
    /\ UNCHANGED <<request, upload, image_id, payload, http_response>>
    /\ UNCHANGED <<decodeVars, escapeVars, tokenVars>>

\* Lines 470-477 raise when the data URI header has no "type:" part or the
\* base64 text is malformed
ImageDecodes(image) == image.b64_ok /\ (image.comma => image.header_ok)

\* Lines 466-477 and 487-489: the image parameter is decoded
PrepareImage ==
    /\ pc = "image"
    /\ IF ~Truthy(request.image)
       THEN pc' = "build" /\ UNCHANGED upload
       ELSE IF ~ImageDecodes(request.image)
            THEN pc' = "build" /\ upload' = "failed: image decoding"
            ELSE pc' = "upload_start" /\ UNCHANGED upload
    /\ UNCHANGED <<request, scraped, image_id, payload, calls, result, http_response>>
    /\ UNCHANGED <<decodeVars, escapeVars, tokenVars>>

\* Lines 482-489: any failure of the upload leaves image_id None
UploadFailed(why) ==
    /\ upload' = why
    /\ image_id' = None
    /\ pc' = "build"

\* Lines 311-315: the handshake POST
UploadStart ==
    /\ pc = "upload_start"
    /\ \E reply \in Replies :
          LET c == Call("POST upload start", NoTimeout, reply) IN
          /\ calls' = Append(calls, c)
          /\ CASE c.outcome = "blocked" ->
                    pc' = "blocked" /\ UNCHANGED <<upload, image_id>>
               [] c.outcome \in TransportFailures ->
                    UploadFailed("failed: network exception")
               [] c.outcome = "answer" ->
                    \E has_upload_url \in BOOLEAN :
                        IF has_upload_url
                        THEN pc' = "upload_finalize" /\ UNCHANGED <<upload, image_id>>
                        ELSE UploadFailed("failed: no upload url")
    /\ UNCHANGED <<request, scraped, payload, result, http_response>>
    /\ UNCHANGED <<decodeVars, escapeVars, tokenVars>>

\* Lines 325-336 and 480-485: the finalize PUT
UploadFinalize ==
    /\ pc = "upload_finalize"
    /\ \E reply \in Replies :
          LET c == Call("PUT upload finalize", NoTimeout, reply) IN
          /\ calls' = Append(calls, c)
          /\ CASE c.outcome = "blocked" ->
                    pc' = "blocked" /\ UNCHANGED <<upload, image_id>>
               [] c.outcome \in TransportFailures ->
                    UploadFailed("failed: network exception")
               [] c.outcome = "answer" ->
                    \E status \in ChatStatuses, text \in UploadTexts :
                        IF status # 200 THEN UploadFailed("failed: finalize status")
                        ELSE IF text = <<>> THEN UploadFailed("failed: no media reference")
                        ELSE /\ upload' = "done"
                             /\ image_id' = Str(text)
                             /\ pc' = "build"
    /\ UNCHANGED <<request, scraped, payload, result, http_response>>
    /\ UNCHANGED <<decodeVars, escapeVars, tokenVars>>

\* (an orchestrator that attaches an image whatever the upload gave)
BuildPayloadAlwaysWithImage ==
    /\ pc = "build"
    /\ payload' = build_payload_with_image(request.prompt.str, scraped.snlm0e, <<"i", "d">>)
    /\ pc' = "post"
    /\ UNCHANGED <<request, scraped, upload, image_id, calls, result, http_response>>
    /\ UNCHANGED <<decodeVars, escapeVars, tokenVars>>

\* Lines 494-497: the payload, with the image when there is one
BuildPayload ==
    /\ pc = "build"
    /\ IF Truthy(image_id)
       THEN IF BreaksJsonLiteral(image_id.str)
            THEN pc' = "raised" /\ UNCHANGED payload
            ELSE /\ payload' = build_payload_with_image(request.prompt.str,
                                                        scraped.snlm0e, image_id.str)
                 /\ pc' = "post"
       ELSE /\ payload' = build_payload(request.prompt.str, scraped.snlm0e)
            /\ pc' = "post"
    /\ UNCHANGED <<request, scraped, upload, image_id, calls, result, http_response>>
    /\ UNCHANGED <<decodeVars, escapeVars, tokenVars>>

\* Lines 522-549: the result for a response received
ResultOf(status, body) ==
    IF status # 200 THEN Failure(HttpError(status))
    ELSE LET text == parse_streaming_response(body) IN
         IF text # None THEN Success(text.str)
         ELSE Failure("No response received from Gemini")

\* (a chat POST whose exceptions are not caught)
ChatPostUncaught ==
    /\ pc = "post"
    /\ \E reply \in Replies :
          LET c == Call("POST chat", Num(PostTimeout), reply) IN
          /\ calls' = Append(calls, c)
          /\ IF c.outcome \in TransportFailures
             THEN pc' = "raised" /\ UNCHANGED result
             ELSE \E status \in ChatStatuses, body \in ChatBodies :
                     result' = ResultOf(status, body) /\ pc' = "return"
    /\ UNCHANGED <<request, scraped, upload, image_id, payload, http_response>>
    /\ UNCHANGED <<decodeVars, escapeVars, tokenVars>>

\* Lines 519-555: the chat POST; a RequestException becomes a failed result
ChatPost ==
    /\ pc = "post"
    /\ \E reply \in Replies :
          LET c == Call("POST chat", Num(PostTimeout), reply) IN
          /\ calls' = Append(calls, c)
          /\ IF c.outcome \in TransportFailures
             THEN result' = Failure(ExceptionText(c.outcome))
             ELSE \E status \in ChatStatuses, body \in ChatBodies :
                     result' = ResultOf(status, body)
    /\ pc' = "return"
    /\ UNCHANGED <<request, scraped, upload, image_id, payload, http_response>>
    /\ UNCHANGED <<decodeVars, escapeVars, tokenVars>>

\* Lines 604-617: chat_with_gemini has returned
AskGeminiRespond ==
    /\ pc = "return"
    /\ http_response' =
          [status |-> IF result.success THEN 200 ELSE 500,
           body |-> [api_dev |-> "@ISmartCoder", prompt |-> request.prompt.str] @@ result]
    /\ pc' = "responded"
    /\ UNCHANGED <<request, scraped, upload, image_id, payload, calls, result>>
    /\ UNCHANGED <<decodeVars, escapeVars, tokenVars>>

\* Line 604: chat_with_gemini has raised; nothing in ask_gemini catches it
AskGeminiRaise ==
    /\ pc = "raised"
    /\ http_response' = [status |-> 500, body |-> None]
    /\ pc' = "crashed"
    /\ UNCHANGED <<request, scraped, upload, image_id, payload, calls, result>>
    /\ UNCHANGED <<decodeVars, escapeVars, tokenVars>>

NextChat ==
    \/ AskGemini
    \/ ScrapeFreshSession
    \/ PrepareImage
    \/ UploadStart
    \/ UploadFinalize
    \/ BuildPayload
    \/ ChatPost
    \/ AskGeminiRespond
    \/ AskGeminiRaise

SpecChat == InitChat /\ [][NextChat]_vars

(***************************************************************************)
(* Properties of ask_gemini and chat_with_gemini                           *)
(***************************************************************************)
\* a prompt that is missing, empty, or made of whitespace only
IsBlankPrompt(p) ==
    p = None \/ \A i \in DOMAIN p.str : p.str[i] \in {" ", "\n", "\t"}

\* a prompt of exactly one character that is no whitespace
IsOneCharPrompt(p) ==
    p # None /\ Len(p.str) = 1 /\ p.str[1] \notin {" ", "\n", "\t"}

\* the escaped form of a single character that is no newline
EscapedChar(c) == IF c \in {"\\", "\""} THEN <<"\\", c>> ELSE <<c>>

\* C6: a missing, empty or whitespace-only prompt is rejected with a failed
\* result and no HTTP call is ever made for it; a prompt of exactly one
\* non-whitespace character is never rejected, and once its payload is
\* built the payload carries the character in escaped form.
C6_BlankPromptRejectedBeforeNetwork ==
    /\ IsBlankPrompt(request.prompt) =>
          /\ calls = <<>> /\ payload = Unset /\ result = Unset
          /\ pc \in {"ask", "responded"}
          /\ pc = "responded" =>
                http_response.status = 400 /\ http_response.body.success = FALSE
    /\ IsOneCharPrompt(request.prompt) =>
          /\ pc # "ask" => (http_response = Unset \/ http_response.status # 400)
          /\ pc = "ask" \/ calls # <<>> \/ pc = "bootstrap"
          /\ payload # Unset =>
                payload.prompt_array[1] = Str(EscapedChar(request.prompt.str[1]))

\* C6 witness: a whitespace-only prompt has been answered with status 400.
C6_Witness ==
    /\ pc = "responded"
    /\ request.prompt = Str(<<" ", "\n">>)
    /\ http_response.status = 400
    /\ calls = <<>>

CallNames == { calls[i].call : i \in DOMAIN calls }

\* C7: when scrape_fresh_session fails, chat_with_gemini returns a failed
\* result and issues no upload request and no chat POST; a chat POST is only
\* ever sent after a landing page fetch that was answered and yielded a token.
C7_BootstrapFailureIsFatal ==
    /\ scraped = None =>
          /\ pc \in {"return", "responded"}
          /\ result # Unset /\ result.success = FALSE
          /\ CallNames = {"GET landing"}
    /\ \A i \in DOMAIN calls :
          calls[i].call = "POST chat" =>
             /\ scraped \notin {None, Unset}
             /\ scraped.snlm0e.len > 20
             /\ \E j \in 1..(i - 1) :
                   calls[j].call = "GET landing" /\ calls[j].outcome = "answer"

\* C7 witness: the landing page was served but held no token, for a request
\* carrying an image, and the caller has been answered.
C7_Witness ==
    /\ pc = "responded"
    /\ scraped = None
    /\ Len(calls) = 1 /\ calls[1].outcome = "answer"
    /\ request.image \in RequestImages \ {None} /\ ~request.image.empty

UploadFailures ==
    { "failed: image decoding", "failed: no upload url", "failed: finalize status",
      "failed: network exception", "failed: no media reference" }

\* the prompt sub-array of a payload holds no nested array
IsTextOnly(pl) ==
    /\ Len(pl.prompt_array) = 7
    /\ \A i \in DOMAIN pl.prompt_array : "list" \notin DOMAIN pl.prompt_array[i]

\* C8: once the upload has failed (decoding, missing upload url, finalize
\* status, network exception), the attempt goes on to the chat POST, never
\* ends without having sent it, and the payload is the text-only one of
\* build_payload.
C8_UploadFailureFallsBackToText ==
    upload \in UploadFailures =>
        /\ pc \in {"build", "post", "return", "responded"}
        /\ image_id = None
        /\ pc \in {"post", "return", "responded"} =>
              /\ IsTextOnly(payload)
              /\ payload = build_payload(request.prompt.str, scraped.snlm0e)
        /\ pc \in {"return", "responded"} => "POST chat" \in CallNames

\* C8 witness: the handshake answered without upload url, and the chat POST
\* has been sent for the request.
C8_Witness ==
    /\ upload = "failed: no upload url"
    /\ pc = "return"
    /\ calls[Len(calls)].call = "POST chat"
    /\ "POST upload start" \in CallNames

MetadataFields ==
    {"response_time", "timestamp", "model", "character_count", "word_count"}

\* C9: every result of chat_with_gemini is either success=true with a
\* response and a metadata object and no error, or success=false with a
\* non-empty error and neither response nor metadata.
C9_ResultShape ==
    result # Unset =>
        \/ /\ DOMAIN result = {"success", "response", "metadata"}
           /\ result.success = TRUE
           /\ result.response # <<>>
           /\ DOMAIN result.metadata = MetadataFields
        \/ /\ DOMAIN result = {"success", "error"}
           /\ result.success = FALSE
           /\ result.error # ""

\* C9 witness: a successful result has been returned.
C9_Witness ==
    /\ pc = "return"
    /\ result.success = TRUE
    /\ result.metadata.word_count = 2

FailedCalls == { calls[i].call : i \in { j \in DOMAIN calls : calls[j].outcome \in TransportFailures } }

\* C10: after a transport failure of any HTTP call, chat_with_gemini never
\* ends by raising; when the failed call is the landing page fetch or the
\* chat POST, it has returned a failed result with an error string.
C10_TransportFailureNeverEscapes ==
    FailedCalls # {} =>
        /\ pc \notin {"raised", "crashed"}
        /\ pc \in {"return", "responded"} => "success" \in DOMAIN result
        /\ FailedCalls \cap {"GET landing", "POST chat"} # {} =>
              /\ pc \in {"return", "responded"}
              /\ result.success = FALSE
              /\ result.error # ""

\* C10 witness: the chat POST timed out after an upload whose handshake
\* broke, and a failed result came back.
C10_Witness ==
    /\ pc = "return"
    /\ FailedCalls = {"POST upload start", "POST chat"}
    /\ calls[Len(calls)].outcome = "timeout"
    /\ result.success = FALSE

\* the attempt is over: the caller has been answered
ChatAttemptOver == pc \in {"responded", "crashed"}

\* C11: every external call (landing page fetch, upload handshake, upload
\* finalize, chat POST) is issued with an explicit timeout, so that a host
\* that never answers ends the call as a transport failure: no call blocks
\* for ever, and the attempt is either over or can still take a step.
C11_EveryCallIsBounded ==
    /\ \A i \in DOMAIN calls :
          calls[i].outcome \in {"answer", "transport_error", "timeout"}
    /\ ChatAttemptOver \/ ENABLED NextChat

====
